---- MODULE Spec2Model ----
(***************************************************************************)
(* A model of PayloadProcessor (payload-processor-esm.js): the conversion  *)
(* of a request envelope whose payload is a Blob or a FormData into a      *)
(* storable envelope (payloadToString) and back (restorePayload).          *)
(*                                                                         *)
(* JavaScript values are modelled as follows.                              *)
(*   string            a TLA+ string                                       *)
(*   undefined         Undefined                                           *)
(*   Blob / File       [t |-> "blob", bytes, type, size] (a File appended  *)
(*                     to a FormData also has fileName)                    *)
(*   FormData          [t |-> "formdata", iterable, entries, arcMeta]      *)
(*   array             [t |-> "array", items] (Arr)                        *)
(*   object            a function from its own keys to their values; a     *)
(*                     key that was deleted or never set is not in DOMAIN  *)
(*   thrown exception  Throw                                               *)
(*   null              Null                                                *)
(* The Blob constructor stores its type in ASCII lower case, and stores    *)
(* the empty string when the type has a character outside U+0020..U+007E.  *)
(***************************************************************************)
EXTENDS Integers, Sequences, FiniteSets, TLC

\* ------------------------------------------------------------------ bounds
\* Longest binary content of the codec specification.
MaxBytes == 3
\* Most fields of a FormData payload.
MaxFields == 2
\* Most part records of a stored multipart list.
MaxParts == 2
\* Most payloadToString / restorePayload calls of one session.
MaxOps == 3

\* ------------------------------------------------------------ JS values
Undefined == [t |-> "undefined"]
Throw == [t |-> "throw"]
Null == [t |-> "null"]
Str(s) == [t |-> "string", s |-> s]
Arr(items) == [t |-> "array", items |-> items]

\* if (!v): undefined, null and the empty string are falsy; an object, an
\* array (even an empty one) and a non-empty string are truthy.
Falsy(v) == v = Undefined \/ v = Null \/ v = Str("")

\* ------------------------------------------------------- string helpers
Char(s, i) == SubSeq(s, i, i)

\* The characters U+0020..U+007E, but for U+0060, which no string of this
\* module holds.
Printable ==
  " !\"#$%&'()*+,-./0123456789:;<=>?@ABCDEFGHIJKLMNOPQRSTUVWXYZ[\\]^_abcdefghijklmnopqrstuvwxyz{|}~"
UpperAlpha == "ABCDEFGHIJKLMNOPQRSTUVWXYZ"
LowerAlpha == "abcdefghijklmnopqrstuvwxyz"

\* The characters of Printable, and the lower-case letter of each upper-case
\* letter.
PrintableChars == {Char(Printable, i) : i \in 1..Len(Printable)}
LowerOf ==
  [c \in {Char(UpperAlpha, i) : i \in 1..Len(UpperAlpha)} |->
     Char(LowerAlpha, CHOOSE i \in 1..Len(UpperAlpha) : Char(UpperAlpha, i) = c)]

IsPrintable(c) == c \in PrintableChars

\* The character in ASCII lower case.
AsciiLower(c) == IF c \in DOMAIN LowerOf THEN LowerOf[c] ELSE c

RECURSIVE ToAsciiLower(_)
ToAsciiLower(s) ==
  IF Len(s) = 0 THEN ""
  ELSE AsciiLower(Char(s, 1)) \o ToAsciiLower(SubSeq(s, 2, Len(s)))

\* The type a Blob or File stores for the type option of its constructor.
NormalizeType(type) ==
  IF \E i \in 1..Len(type) : ~IsPrintable(Char(type, i)) THEN ""
  ELSE ToAsciiLower(type)

\* new Blob([bytes], {type: type})
Blob(bytes, type) ==
  [t |-> "blob", bytes |-> bytes, type |-> NormalizeType(type), size |-> Len(bytes)]

\* The least index >= from at which s holds the character c, or 0.
IndexOf(s, c, from) ==
  LET hits == {i \in from..Len(s) : Char(s, i) = c}
  IN IF hits = {} THEN 0 ELSE CHOOSE i \in hits : \A j \in hits : i <= j

\* dataurl.split(',')[0]
SplitHead(s) ==
  LET c == IndexOf(s, ",", 1)
  IN IF c = 0 THEN s ELSE SubSeq(s, 1, c - 1)

\* dataurl.split(',')[1]: undefined when the string holds no comma
SplitSecond(s) ==
  LET c == IndexOf(s, ",", 1)
      d == IF c = 0 THEN 0 ELSE IndexOf(s, ",", c + 1)
  IN IF c = 0 THEN Undefined
     ELSE IF d = 0 THEN Str(SubSeq(s, c + 1, Len(s)))
     ELSE Str(SubSeq(s, c + 1, d - 1))

\* s.match(/:(.*?);/): the match starts at the first ':' from which a ';' is
\* reached without crossing a line terminator ('.' matches none), and group 1
\* is the text between the two; null (Undefined here) when there is no match.
MatchMime(s) ==
  LET End(c) == IndexOf(s, ";", c + 1)
      starts == {c \in 1..Len(s) :
                   /\ Char(s, c) = ":"
                   /\ End(c) # 0
                   /\ \A j \in (c + 1)..(End(c) - 1) : Char(s, j) \notin {"\n", "\r"}}
      first == CHOOSE c \in starts : \A d \in starts : c <= d
  IN IF starts = {} THEN Undefined ELSE Str(SubSeq(s, first + 1, End(first) - 1))

\* ---------------------------------------------------------------- base64
B64Chars == "ABCDEFGHIJKLMNOPQRSTUVWXYZabcdefghijklmnopqrstuvwxyz0123456789+/"

B64Char(v) == Char(B64Chars, v + 1)
IsB64Char(c) == \E i \in 1..64 : Char(B64Chars, i) = c
B64Value(c) == CHOOSE v \in 0..63 : Char(B64Chars, v + 1) = c

\* Standard base64 with '=' padding, as FileReader.readAsDataURL writes it.
RECURSIVE Base64Encode(_)
Base64Encode(bytes) ==
  IF Len(bytes) = 0 THEN ""
  ELSE IF Len(bytes) = 1 THEN
    LET n == bytes[1] * 65536
    IN B64Char(n \div 262144) \o B64Char((n \div 4096) % 64) \o "=="
  ELSE IF Len(bytes) = 2 THEN
    LET n == bytes[1] * 65536 + bytes[2] * 256
    IN B64Char(n \div 262144) \o B64Char((n \div 4096) % 64)
         \o B64Char((n \div 64) % 64) \o "="
  ELSE
    LET n == bytes[1] * 65536 + bytes[2] * 256 + bytes[3]
    IN B64Char(n \div 262144) \o B64Char((n \div 4096) % 64)
         \o B64Char((n \div 64) % 64) \o B64Char(n % 64)
         \o Base64Encode(SubSeq(bytes, 4, Len(bytes)))

IsAsciiWhitespace(c) == c \in {" ", "\t", "\n", "\r", "\f"}

RECURSIVE StripWhitespace(_)
StripWhitespace(s) ==
  IF Len(s) = 0 THEN ""
  ELSE IF IsAsciiWhitespace(Char(s, 1)) THEN StripWhitespace(SubSeq(s, 2, Len(s)))
  ELSE Char(s, 1) \o StripWhitespace(SubSeq(s, 2, Len(s)))

\* The bytes of a run of base64 characters whose length is not 1 modulo 4;
\* the bits left over after the last whole byte are discarded.
RECURSIVE DecodeSextets(_)
DecodeSextets(s) ==
  IF Len(s) = 0 THEN <<>>
  ELSE IF Len(s) = 2 THEN
    LET n == B64Value(Char(s, 1)) * 64 + B64Value(Char(s, 2))
    IN <<n \div 16>>
  ELSE IF Len(s) = 3 THEN
    LET n == B64Value(Char(s, 1)) * 4096 + B64Value(Char(s, 2)) * 64
               + B64Value(Char(s, 3))
    IN <<n \div 1024, (n \div 4) % 256>>
  ELSE
    LET n == B64Value(Char(s, 1)) * 262144 + B64Value(Char(s, 2)) * 4096
               + B64Value(Char(s, 3)) * 64 + B64Value(Char(s, 4))
    IN <<n \div 65536, (n \div 256) % 256, n % 256>>
         \o DecodeSextets(SubSeq(s, 5, Len(s)))

\* window.atob (the forgiving-base64 decode): the char codes of the binary
\* string it returns, or Throw (InvalidCharacterError).
Atob(s) ==
  LET w == StripWhitespace(s)
      n == Len(w)
      u == IF n > 0 /\ n % 4 = 0
           THEN IF SubSeq(w, n - 1, n) = "==" THEN SubSeq(w, 1, n - 2)
                ELSE IF Char(w, n) = "=" THEN SubSeq(w, 1, n - 1)
                ELSE w
           ELSE w
  IN IF Len(u) % 4 = 1 \/ \E i \in 1..Len(u) : ~IsB64Char(Char(u, i))
     THEN Throw
     ELSE [t |-> "binary", codes |-> DecodeSextets(u)]


\* ------------------------------------------------------------ JS objects
HasKey(obj, k) == k \in DOMAIN obj
\* obj[k] = v
SetKey(obj, k, v) == [kk \in DOMAIN obj \cup {k} |-> IF kk = k THEN v ELSE obj[kk]]
\* delete obj[k]
DeleteKey(obj, k) == [kk \in DOMAIN obj \ {k} |-> obj[kk]]

\* A Blob appended to a FormData is stored as a File.
File(bytes, type, fileName) ==
  [t |-> "blob", bytes |-> bytes, type |-> NormalizeType(type), size |-> Len(bytes),
   fileName |-> fileName]

\* new FormData(): no entries and no _arcMeta property.
NewFormData == [t |-> "formdata", iterable |-> TRUE, entries |-> <<>>, arcMeta |-> Undefined]

\* FormData.append(name, value): a string is stored as it is, a Blob becomes
\* a File named "blob".
FormDataAppend(fd, name, value) ==
  LET stored == IF value.t = "blob"
                THEN File(value.bytes, value.type, "blob")
                ELSE value
  IN [fd EXCEPT !.entries = Append(@, [name |-> name, value |-> stored])]

\* ------------------------------------------------------- Data-URL codec
\* FileReader.readAsDataURL(blob): the results the engine may deliver with
\* loadend. A blob without a type is written as application/octet-stream.
\* For a blob of zero bytes engines differ: some deliver the full prefix with
\* an empty payload, some deliver "data:" alone.
ReadAsDataURL(blob) ==
  LET mime == IF blob.type = "" THEN "application/octet-stream" ELSE blob.type
      full == "data:" \o mime \o ";base64," \o Base64Encode(blob.bytes)
  IN IF Len(blob.bytes) = 0 THEN {full, "data:"} ELSE {full}

Resolved(v) == [t |-> "resolved", value |-> v]
Rejected == [t |-> "rejected"]
\* The runs of the FileReader that readAsDataURL(blob) starts, as the events it
\* fires and its result attribute at loadend: load then loadend with the data
\* URL, or error then loadend with null. Nothing holds the reader but the
\* promise executor, so abort() is never called and no abort event is fired.
ReaderRuns(blob) ==
  {[events |-> <<"load", "loadend">>, result |-> s] : s \in ReadAsDataURL(blob)}
    \cup {[events |-> <<"error", "loadend">>, result |-> Null]}

\* The read of the run failed.
RunFailed(run) == \E i \in 1..Len(run.events) : run.events[i] = "error"

\* A promise executor that sets no onerror handler: the promise is settled by
\* onloadend alone.
RECURSIVE SettleOnLoadEndOnly(_, _)
SettleOnLoadEndOnly(events, res) ==
  IF Len(events) = 0 THEN [t |-> "pending"]
  ELSE IF Head(events) = "loadend" THEN Resolved(res)
  ELSE SettleOnLoadEndOnly(Tail(events), res)

\* The promise executor of _blobToString over the events of one run: onloadend
\* resolves with e.target.result, onerror rejects, and the handler that runs
\* first settles the promise (a later resolve or reject does nothing).
RECURSIVE SettleOn(_, _)
SettleOn(events, res) ==
  IF Len(events) = 0 THEN [t |-> "pending"]
  ELSE IF Head(events) = "loadend" THEN Resolved(res)
  ELSE IF Head(events) = "error" THEN Rejected
  ELSE SettleOn(Tail(events), res)

\* One read of blob by _blobToString: whether the read failed, and how the
\* promise settled.
Reads(blob) ==
  {[failed |-> RunFailed(run), out |-> SettleOn(run.events, run.result)] :
     run \in ReaderRuns(blob)}

\* The ways the promise of _blobToString(blob) can settle: resolved with the
\* reader's result on loadend, or rejected on the reader's error event.
_blobToString(blob) == {rd.out : rd \in Reads(blob)}

\* _dataURLtoBlob with the copy loop written while (--n): the byte at index 0
\* is never copied and stays 0.
_dataURLtoBlobSkipFirst(dataurl) ==
  LET arr0 == SplitHead(dataurl)
      arr1 == SplitSecond(dataurl)
      mime == MatchMime(arr0)
      bstr == Atob(IF arr1 = Undefined THEN "undefined" ELSE arr1.s)
  IN IF mime = Undefined THEN Throw
     ELSE IF bstr = Throw THEN Throw
     ELSE Blob([i \in 1..Len(bstr.codes) |-> IF i = 1 THEN 0 ELSE bstr.codes[i]],
               mime.s)

\* The restored Blob, or Throw.
_dataURLtoBlob(dataurl) ==
  LET arr0 == SplitHead(dataurl)
      arr1 == SplitSecond(dataurl)
      mime == MatchMime(arr0)
      bstr == Atob(IF arr1 = Undefined THEN "undefined" ELSE arr1.s)
  IN IF mime = Undefined THEN Throw          \* null[1]: TypeError
     ELSE IF bstr = Throw THEN Throw         \* atob: InvalidCharacterError
     ELSE Blob(bstr.codes, mime.s)

\* --------------------------------------------------- multipart: restore
PartIsFile(part) == HasKey(part, "isFile") /\ part.isFile
PartIsTextBlob(part) == HasKey(part, "isTextBlob") /\ part.isTextBlob

\* try { value = _dataURLtoBlob(part.value) } catch (e) { value = '' }
DecodeOrEmpty(dataurl) ==
  LET blob == _dataURLtoBlob(dataurl)
  IN IF blob = Throw THEN Str("") ELSE blob

\* One turn of the forEach callback of restoreMultipart.
RestorePart(fd, part) ==
  LET name == part.name
      marked == IF ~PartIsFile(part) /\ PartIsTextBlob(part)
                THEN [fd EXCEPT !.arcMeta.textParts.items = Append(@, name)]
                ELSE fd
      value == IF PartIsFile(part) THEN DecodeOrEmpty(part.value)
               ELSE IF PartIsTextBlob(part) THEN DecodeOrEmpty(part.value)
               ELSE Str(part.value)
  IN FormDataAppend(marked, name, value)

\* model.forEach(...)
RECURSIVE RestoreParts(_, _)
RestoreParts(fd, items) ==
  IF Len(items) = 0 THEN fd
  ELSE RestoreParts(RestorePart(fd, Head(items)), Tail(items))

\* model is a falsy value or an array of part records.
restoreMultipart(model) ==
  IF Falsy(model) \/ Len(model.items) = 0 THEN NewFormData
  ELSE RestoreParts([NewFormData EXCEPT !.arcMeta = [textParts |-> Arr(<<>>)]], model.items)

\* ------------------------------------------------------ envelope: restore
\* if (request.multipart): an array, even an empty one, is truthy; a key
\* holding undefined, null or '' is falsy.
MultipartPresent(request) == HasKey(request, "multipart") /\ ~Falsy(request.multipart)
\* if (request.blob): the empty string is falsy.
BlobPresent(request) == HasKey(request, "blob") /\ request.blob # ""

\* restorePayload testing request.blob before request.multipart.
restorePayloadBlobFirst(request) ==
  IF BlobPresent(request) THEN
    LET blob == _dataURLtoBlob(request.blob)
    IN DeleteKey(IF blob = Throw THEN request ELSE SetKey(request, "payload", blob),
                 "blob")
  ELSE IF MultipartPresent(request) THEN
    LET fd == restoreMultipart(request.multipart)
    IN DeleteKey(IF fd = Throw THEN request ELSE SetKey(request, "payload", fd),
                 "multipart")
  ELSE request

\* restorePayload without the try/catch around _dataURLtoBlob.
restorePayloadNoCatch(request) ==
  IF MultipartPresent(request) THEN
    LET fd == restoreMultipart(request.multipart)
    IN DeleteKey(IF fd = Throw THEN request ELSE SetKey(request, "payload", fd),
                 "multipart")
  ELSE IF BlobPresent(request) THEN
    LET blob == _dataURLtoBlob(request.blob)
    IN IF blob = Throw THEN Throw
       ELSE DeleteKey(SetKey(request, "payload", blob), "blob")
  ELSE request

\* The request as restorePayload returns it, or Throw.
restorePayload(request) ==
  IF MultipartPresent(request) THEN
    LET fd == restoreMultipart(request.multipart)
    IN DeleteKey(IF fd = Throw THEN request ELSE SetKey(request, "payload", fd),
                 "multipart")
  ELSE IF BlobPresent(request) THEN
    LET blob == _dataURLtoBlob(request.blob)
    IN DeleteKey(IF blob = Throw THEN request ELSE SetKey(request, "payload", blob),
                 "blob")
  ELSE request

\* ---------------------------------------------------- multipart: encode
\* textParts && textParts.indexOf(name) !== -1
InTextParts(textParts, name) ==
  ~Falsy(textParts) /\ \E i \in 1..Len(textParts.items) : textParts.items[i] = name

\* _createMultipartEntry: the textParts it hands to _computeFormDataEntry,
\* payload._arcMeta.textParts when _arcMeta and its textParts are truthy.
TextPartsOf(payload) ==
  IF /\ ~Falsy(payload.arcMeta)
     /\ HasKey(payload.arcMeta, "textParts")
     /\ ~Falsy(payload.arcMeta.textParts)
  THEN payload.arcMeta.textParts
  ELSE Undefined

\* The part the two then-callbacks build from the string the promise of one
\* entry resolved to.
MakePart(entry, textParts, str) ==
  LET isTextBlob == entry.value.t = "blob" /\ InTextParts(textParts, entry.name)
      isBlob == entry.value.t = "blob" /\ ~isTextBlob
      part == [name |-> entry.name, value |-> str, isFile |-> isBlob]
  IN IF isTextBlob THEN SetKey(part, "isTextBlob", TRUE) ELSE part

\* result.unshift(part)
PushPartFront(res, part) == <<part>> \o res

\* result.push(part)
PushPart(res, part) == Append(res, part)

\* _computeFormDataEntry draining the iterator in one call and starting the
\* read of every Blob left, as a Promise.all over the entries would.
_computeFormDataEntryAll(it, res) ==
  IF it.pos >= Len(it.entries)
  THEN [done |-> TRUE, iterator |-> it, reads |-> {}]
  ELSE [done |-> FALSE,
        iterator |-> [it EXCEPT !.pos = @ + 1],
        reads |-> {i \in (it.pos + 1)..Len(it.entries) : it.entries[i].value.t = "blob"}]

\* One call of _computeFormDataEntry: iterator.next(), and a read started when
\* the entry's value is a Blob. reads: the entries whose read this call starts.
_computeFormDataEntry(it, res) ==
  IF it.pos >= Len(it.entries)
  THEN [done |-> TRUE, iterator |-> it, reads |-> {}]
  ELSE [done |-> FALSE,
        iterator |-> [it EXCEPT !.pos = @ + 1],
        reads |-> IF it.entries[it.pos + 1].value.t = "blob" THEN {it.pos + 1} ELSE {}]

\* --------------------------------------------------------------- state
VARIABLES
  request,    \* the envelope the caller holds: the initial one, then the
              \* value the last call returned or resolved to
  pc,         \* "idle"; "blobRead", "entry": a payloadToString call waits
              \* for the read of its Blob payload / for the promise of the
              \* current FormData entry; "rejected": its promise was rejected;
              \* "threw": restorePayload let an exception escape
  data,       \* payloadToString: the copy of the request being filled
  iterator,   \* _computeFormDataEntry: the FormData iterator, as the entries
              \* and the number of them next() has returned
  textParts,  \* _computeFormDataEntry: the textParts argument
  result,     \* _computeFormDataEntry: the result array
  inflight,   \* the reads started and not yet settled: entry indexes, 0 for
              \* the envelope's Blob payload
  op,         \* the last call made: "none", "payloadToString", "restorePayload"
  arg,        \* the envelope that call was given
  origin,     \* the initial envelope
  ops,        \* the number of calls made
  readError,  \* a reader of the last payloadToString call fired error
  codec       \* the codec run of SpecCodec

vars == <<request, pc, data, iterator, textParts, result, inflight, op, arg,
          origin, ops, readError, codec>>

\* No call in progress.
NoCall ==
  [pc |-> "idle", data |-> Undefined, iterator |-> [entries |-> <<>>, pos |-> 0],
   textParts |-> Undefined, result |-> <<>>, inflight |-> {}]

\* ----------------------------------------------------- envelope: encode
\* if (!request.payload): a missing key, undefined, null and '' are falsy.
PayloadPresent(req) == HasKey(req, "payload") /\ ~Falsy(req.payload)

\* A call whose promise resolved to the envelope value.
Settled(value) == [NoCall EXCEPT !.pc = "resolved", !.data = value]

\* The .then of payloadToString on _createMultipartEntry.
WithMultipart(copy, entry) ==
  SetKey(SetKey(copy, "payload", Undefined), "multipart", Arr(entry))

\* The .then on _blobToString without data.payload = undefined.
WithBlobKeepPayload(copy, str) == SetKey(copy, "blob", str)

\* The .then of payloadToString on _blobToString.
WithBlob(copy, str) ==
  SetKey(SetKey(copy, "payload", Undefined), "blob", str)

\* A call of _computeFormDataEntry made while payloadToString fills copy:
\* the call state it leaves. reads holds the reads in flight before it.
Advance(copy, it, tp, res, reads) ==
  LET step == _computeFormDataEntry(it, res)
  IN IF step.done
     THEN Settled(WithMultipart(copy, res))
     ELSE [pc |-> "entry", data |-> copy, iterator |-> step.iterator,
           textParts |-> tp, result |-> res, inflight |-> reads \cup step.reads]

\* _createMultipartEntry(payload), called by payloadToString with the copy.
_createMultipartEntry(copy, payload) ==
  Advance(copy, [entries |-> payload.entries, pos |-> 0], TextPartsOf(payload), <<>>, {})

\* payloadToString copying the request and clearing payload whenever a
\* payload is present, a string payload included.
payloadToStringClearAll(req) ==
  IF ~PayloadPresent(req) THEN Settled(req)
  ELSE IF req.payload.t = "formdata" THEN
    IF ~req.payload.iterable
    THEN Settled(SetKey(req, "payload", Undefined))
    ELSE _createMultipartEntry(req, req.payload)
  ELSE IF req.payload.t = "blob" THEN
    [NoCall EXCEPT !.pc = "blobRead", !.data = req, !.inflight = {0}]
  ELSE Settled(SetKey(req, "payload", Undefined))

\* The synchronous part of payloadToString(request): the call state it leaves.
payloadToString(req) ==
  IF ~PayloadPresent(req) THEN Settled(req)
  ELSE IF req.payload.t = "formdata" THEN
    IF ~req.payload.iterable
    THEN Settled(SetKey(req, "payload", Undefined))
    ELSE _createMultipartEntry(req, req.payload)
  ELSE IF req.payload.t = "blob" THEN
    [NoCall EXCEPT !.pc = "blobRead", !.data = req, !.inflight = {0}]
  ELSE Settled(req)

\* ------------------------------------------------------------- inputs
ByteVals == {0, 42, 255}
RECURSIVE SeqsUpTo(_, _)
SeqsUpTo(S, n) ==
  IF n = 0 THEN {<<>>}
  ELSE LET shorter == SeqsUpTo(S, n - 1)
       IN shorter \cup {Append(q, e) : q \in {r \in shorter : Len(r) = n - 1}, e \in S}

MediaTypes ==
  {"text/plain", "application/json", "", "text/plain;charset=utf-8", "text/x;a=b,c",
   "Text/Plain", "b\tc"}

Stars == <<42, 42, 42>>
StarsUrl == "data:text/plain;base64,Kioq"

BaseRequest == [url |-> "https://domain.com", method |-> "POST"]

FieldNames == {"file", "text-part"}
FieldValues ==
  {Str("abcd"), File(Stars, "text/plain", "file-name"), File(<<>>, "", "blob")}
Fields == {[name |-> n, value |-> v] : n \in FieldNames, v \in FieldValues}
ArcMetas == {Undefined, [textParts |-> Arr(<<"text-part">>)]}
\* An _arcMeta without textParts, or with a falsy one.
OddArcMetas == {[textParts |-> Undefined], [other |-> 1]}

FormDatas ==
  {[t |-> "formdata", iterable |-> TRUE, entries |-> e, arcMeta |-> m] :
      e \in SeqsUpTo(Fields, MaxFields), m \in ArcMetas}
    \cup {[t |-> "formdata", iterable |-> TRUE, entries |-> <<f>>, arcMeta |-> m] :
            f \in Fields, m \in OddArcMetas}
    \cup {[t |-> "formdata", iterable |-> FALSE, entries |-> <<>>, arcMeta |-> Undefined]}

Payloads ==
  {Undefined, Str(""), Str("test"), Blob(Stars, "text/plain"), Blob(<<0, 255>>, ""),
   Blob(<<>>, "text/plain")} \cup FormDatas

StoredBlobs ==
  {StarsUrl, "", "not-a-data-url", "data:text/plain;base64,Ki!q",
   "data:text/plain;base64,Kioqq", "data:text/plain;base64", "data:;base64,Kg",
   "data:Text/Plain;base64,Kioq", "a:b\tc;,Kioq"}

PartNames == {"test-name", "file"}
StoredParts ==
  UNION {{[name |-> n, value |-> "test-value", isFile |-> FALSE],
          [name |-> n, value |-> StarsUrl, isFile |-> TRUE],
          [name |-> n, value |-> StarsUrl, isFile |-> FALSE, isTextBlob |-> TRUE],
          [name |-> n, value |-> StarsUrl, isFile |-> FALSE, type |-> "text/plain"],
          [name |-> n, value |-> StarsUrl, isFile |-> TRUE, fileName |-> "file-name"],
          [name |-> n, value |-> "not-a-data-url", isFile |-> TRUE],
          [name |-> n, value |-> "not-a-data-url", isFile |-> FALSE, isTextBlob |-> TRUE],
          [name |-> n, value |-> "not-a-data-url", isFile |-> FALSE, type |-> "text/plain"]}
         : n \in PartNames}
Multiparts == {Arr(q) : q \in SeqsUpTo(StoredParts, MaxParts)}

\* The envelopes a session starts from: at most one of payload, blob and
\* multipart set, and a few with two of them.
Requests ==
  {BaseRequest}
    \cup {SetKey(BaseRequest, "payload", p) : p \in Payloads}
    \cup {SetKey(BaseRequest, "blob", b) : b \in StoredBlobs}
    \cup {SetKey(BaseRequest, "multipart", m) : m \in Multiparts}
    \cup {SetKey(SetKey(BaseRequest, "blob", b), "multipart", m) :
            b \in {StarsUrl, "not-a-data-url"},
            m \in {Arr(<<>>), Arr(<<[name |-> "test-name", value |-> "test-value", isFile |-> FALSE]>>)}}
    \cup {SetKey(SetKey(BaseRequest, "blob", b), "payload", Str("test")) :
            b \in {StarsUrl, "not-a-data-url"}}
    \cup {SetKey(BaseRequest, "multipart", Undefined),
          SetKey(SetKey(BaseRequest, "multipart", Undefined), "blob", StarsUrl),
          SetKey(SetKey(BaseRequest, "multipart", Undefined), "payload", Str("test"))}

CodecIdle == [stage |-> "off"]

\* ---------------------------------------------------------------- Init
Init ==
  /\ request \in Requests
  /\ origin = request
  /\ arg = request
  /\ op = "none"
  /\ ops = 0
  /\ pc = NoCall.pc
  /\ data = NoCall.data
  /\ iterator = NoCall.iterator
  /\ textParts = NoCall.textParts
  /\ result = NoCall.result
  /\ inflight = NoCall.inflight
  /\ readError = FALSE
  /\ codec = CodecIdle

\* ------------------------------------------------------------- actions
\* The call state st is entered; a call that settled hands its value to the
\* caller.
Enter(st) ==
  IF st.pc = "resolved"
  THEN /\ request' = st.data
       /\ pc' = "idle"
       /\ data' = NoCall.data
       /\ iterator' = NoCall.iterator
       /\ textParts' = NoCall.textParts
       /\ result' = NoCall.result
       /\ inflight' = NoCall.inflight
  ELSE /\ request' = request
       /\ pc' = st.pc
       /\ data' = st.data
       /\ iterator' = st.iterator
       /\ textParts' = st.textParts
       /\ result' = st.result
       /\ inflight' = st.inflight

\* The caller calls payloadToString(request).
PayloadToString ==
  /\ pc = "idle"
  /\ ops < MaxOps
  /\ op' = "payloadToString"
  /\ arg' = request
  /\ ops' = ops + 1
  /\ readError' = FALSE
  /\ Enter(payloadToString(request))
  /\ UNCHANGED <<origin, codec>>

\* loadend of the reader of the envelope's Blob payload.
BlobLoaded ==
  /\ pc = "blobRead"
  /\ \E rd \in Reads(data.payload) :
       /\ rd.out.t = "resolved"
       /\ readError' = (readError \/ rd.failed)
       /\ Enter(Settled(WithBlob(data, rd.out.value)))
  /\ UNCHANGED <<op, arg, origin, ops, codec>>

\* The promise of the current FormData entry is fulfilled (for a Blob, by
\* loadend of its reader): the part is pushed and _computeFormDataEntry is
\* called again.
EntryResolved ==
  /\ pc = "entry"
  /\ LET entry == iterator.entries[iterator.pos]
         settles == IF entry.value.t = "blob"
                    THEN {rd \in Reads(entry.value) : rd.out.t = "resolved"}
                    ELSE {[failed |-> FALSE, out |-> Resolved(entry.value.s)]}
     IN \E rd \in settles :
          /\ readError' = (readError \/ rd.failed)
          /\ Enter(Advance(data, iterator, textParts,
                           PushPart(result, MakePart(entry, textParts, rd.out.value)),
                           inflight \ {iterator.pos}))
  /\ UNCHANGED <<op, arg, origin, ops, codec>>

\* The error event of a reader in flight: the promise of payloadToString is
\* rejected.
ReadFailed ==
  /\ pc \in {"blobRead", "entry"}
  /\ inflight # {}
  /\ \E i \in inflight :
       \E rd \in Reads(IF i = 0 THEN data.payload ELSE iterator.entries[i].value) :
         /\ rd.out = Rejected
         /\ readError' = (readError \/ rd.failed)
  /\ pc' = "rejected"
  /\ inflight' = {}
  /\ UNCHANGED <<request, data, iterator, textParts, result, op, arg, origin, ops, codec>>

\* The caller calls restorePayload(request).
RestorePayload ==
  /\ pc = "idle"
  /\ ops < MaxOps
  /\ op' = "restorePayload"
  /\ arg' = request
  /\ ops' = ops + 1
  /\ LET ret == restorePayload(request)
     IN IF ret = Throw
        THEN /\ pc' = "threw"
             /\ request' = request
        ELSE /\ pc' = "idle"
             /\ request' = ret
  /\ UNCHANGED <<data, iterator, textParts, result, inflight, origin, readError, codec>>

\* ------------------------------------------------- codec specification
\* One Blob is encoded by _blobToString and the string decoded by
\* _dataURLtoBlob.
CodecInputs == {Blob(b, m) : b \in SeqsUpTo(ByteVals, MaxBytes), m \in MediaTypes}

InitCodec ==
  /\ request = BaseRequest
  /\ origin = request
  /\ arg = request
  /\ op = "none"
  /\ ops = 0
  /\ pc = NoCall.pc
  /\ data = NoCall.data
  /\ iterator = NoCall.iterator
  /\ textParts = NoCall.textParts
  /\ result = NoCall.result
  /\ inflight = NoCall.inflight
  /\ readError = FALSE
  /\ codec \in {[stage |-> "input", blob |-> b] : b \in CodecInputs}

\* _blobToString(blob) settles.
CodecEncode ==
  /\ codec.stage = "input"
  /\ \E out \in _blobToString(codec.blob) :
       codec' = IF out.t = "resolved"
                THEN [stage |-> "encoded", blob |-> codec.blob, url |-> out.value]
                ELSE [stage |-> "rejected", blob |-> codec.blob]
  /\ UNCHANGED <<request, pc, data, iterator, textParts, result, inflight, op, arg,
                 origin, ops, readError>>

\* _dataURLtoBlob(url) returns or throws.
CodecDecode ==
  /\ codec.stage = "encoded"
  /\ codec' = [stage |-> "decoded", blob |-> codec.blob, url |-> codec.url,
               out |-> _dataURLtoBlob(codec.url)]
  /\ UNCHANGED <<request, pc, data, iterator, textParts, result, inflight, op, arg,
                 origin, ops, readError>>

NextCodec ==
  \/ CodecEncode
  \/ CodecDecode

SpecCodec == InitCodec /\ [][NextCodec]_vars

Next ==
  \/ PayloadToString
  \/ BlobLoaded
  \/ EntryResolved
  \/ ReadFailed
  \/ RestorePayload

Spec == Init /\ [][Next]_vars

\* ================================================================ claims
Contains(s, c) == IndexOf(s, c, 1) # 0

\* A media type that readAsDataURL writes and /:(.*?);/ reads back whole:
\* not empty, and without parameters (no ';' and no ',').
PlainMediaType(m) == m # "" /\ ~Contains(m, ";") /\ ~Contains(m, ",")

\* C1 as stated: for every binary content b and media type m, decoding the
\* string produced by encoding (b, m) yields a blob whose bytes equal b, whose
\* size is the length of b and whose media type is m.
C1_RoundTripEveryType ==
  codec.stage = "decoded" =>
    /\ codec.out # Throw
    /\ codec.out.bytes = codec.blob.bytes
    /\ codec.out.size = Len(codec.blob.bytes)
    /\ codec.out.type = codec.blob.type

\* C1 amended: for every non-empty binary content b and every media type m
\* that is not empty and has no parameters, decoding the string produced by
\* encoding (b, m) yields a blob whose bytes equal b, whose size is the length
\* of b and whose media type is m.
C1_RoundTripPlainType ==
  (/\ codec.stage = "decoded"
   /\ Len(codec.blob.bytes) > 0
   /\ PlainMediaType(codec.blob.type)) =>
    /\ codec.out # Throw
    /\ codec.out.bytes = codec.blob.bytes
    /\ codec.out.size = Len(codec.blob.bytes)
    /\ codec.out.type = codec.blob.type

\* A blob of three bytes "***" and type text/plain was encoded to
\* data:text/plain;base64,Kioq and decoded to an equal blob.
C1_Witness ==
  /\ codec.stage = "decoded"
  /\ codec.blob = Blob(Stars, "text/plain")
  /\ codec.url = StarsUrl
  /\ codec.out = codec.blob

\* ---------------------------------------------------- claims on Spec
\* The last call was payloadToString on an iterable FormData payload and its
\* promise has resolved: request is the envelope it resolved to.
EncodedForm ==
  /\ op = "payloadToString"
  /\ pc = "idle"
  /\ PayloadPresent(arg)
  /\ arg.payload.t = "formdata"
  /\ arg.payload.iterable

\* The last call was restorePayload and it returned: request is its result.
Restored == op = "restorePayload" /\ pc = "idle"

Storable == {"payload", "blob", "multipart"}

\* The number of payload, blob and multipart the envelope has populated.
Populated(env) ==
  {k \in Storable :
     HasKey(env, k) /\ (k # "blob" => (env[k] # Undefined /\ env[k] # Null))}
AtMostOne(env) == Cardinality(Populated(env)) <= 1

\* The keys other than payload, blob and multipart are the same, with the
\* same values.
SameMetadata(a, b) ==
  /\ DOMAIN a \ Storable = DOMAIN b \ Storable
  /\ \A k \in DOMAIN a \ Storable : a[k] = b[k]

\* C2: the container encode of a FormData with n entries (names may repeat)
\* resolves to a list of exactly n part records, the i-th carrying the i-th
\* entry's name.
C2_MultipartOrder ==
  EncodedForm =>
    /\ HasKey(request, "multipart")
    /\ Len(request.multipart.items) = Len(arg.payload.entries)
    /\ \A i \in 1..Len(arg.payload.entries) :
         request.multipart.items[i].name = arg.payload.entries[i].name

\* Two entries of different names, a Blob then a string, were encoded in order.
C2_Witness ==
  /\ EncodedForm
  /\ Len(arg.payload.entries) = 2
  /\ arg.payload.entries[1].name = "file"
  /\ arg.payload.entries[1].value.t = "blob"
  /\ arg.payload.entries[2].name = "text-part"
  /\ arg.payload.entries[2].value.t = "string"
  /\ request.multipart.items[1].name = "file"
  /\ request.multipart.items[2].name = "text-part"

\* C3 as stated: a Blob entry whose name is in _arcMeta.textParts encodes to a
\* part with isFile = false, type = the blob's media type, value = the blob's
\* data URL, and no fileName.
C3_TextBlobShape ==
  EncodedForm =>
    \A i \in 1..Len(arg.payload.entries) :
      LET entry == arg.payload.entries[i]
          part == request.multipart.items[i]
      IN (entry.value.t = "blob" /\ InTextParts(TextPartsOf(arg.payload), entry.name)) =>
           /\ part.isFile = FALSE
           /\ HasKey(part, "type")
           /\ part.type = entry.value.type
           /\ part.value \in ReadAsDataURL(entry.value)
           /\ ~HasKey(part, "fileName")

\* C4 as stated: a Blob entry whose name is not in _arcMeta.textParts encodes
\* to a part with isFile = true, value = the blob's data URL, no type, and
\* fileName = the file name of the entry.
C4_FilePartShape ==
  EncodedForm =>
    \A i \in 1..Len(arg.payload.entries) :
      LET entry == arg.payload.entries[i]
          part == request.multipart.items[i]
      IN (entry.value.t = "blob" /\ ~InTextParts(TextPartsOf(arg.payload), entry.name)) =>
           /\ part.isFile = TRUE
           /\ part.value \in ReadAsDataURL(entry.value)
           /\ ~HasKey(part, "type")
           /\ HasKey(part, "fileName")
           /\ part.fileName = entry.value.fileName

\* C5 as stated: restoreMultipart appends, for a record with isFile = false and
\* a type whose value is a valid data URL, the Blob decoded from the value and
\* records the name in _arcMeta.textParts; for a record with isFile = false and
\* no type, the literal string, and the record adds no name to textParts.
C5_TypedTextRecord ==
  (Restored /\ MultipartPresent(arg)) =>
    LET items == arg.multipart.items
        fd == request.payload
        Typed(i) == ~PartIsFile(items[i]) /\ HasKey(items[i], "type")
        Plain(i) == ~PartIsFile(items[i]) /\ ~HasKey(items[i], "type")
    IN /\ Len(fd.entries) = Len(items)
       /\ \A i \in 1..Len(items) :
            (Typed(i) /\ _dataURLtoBlob(items[i].value) # Throw) =>
              /\ fd.entries[i].name = items[i].name
              /\ fd.entries[i].value.t = "blob"
              /\ fd.entries[i].value.bytes = _dataURLtoBlob(items[i].value).bytes
              /\ fd.entries[i].value.type = _dataURLtoBlob(items[i].value).type
              /\ fd.arcMeta # Undefined
              /\ \E j \in 1..Len(fd.arcMeta.textParts.items) :
                   fd.arcMeta.textParts.items[j] = items[i].name
       /\ \A i \in 1..Len(items) :
            Plain(i) => /\ fd.entries[i].name = items[i].name
                        /\ fd.entries[i].value = Str(items[i].value)
       /\ fd.arcMeta # Undefined =>
            Len(fd.arcMeta.textParts.items) = Cardinality({i \in 1..Len(items) : Typed(i)})

\* C6: restorePayload with multipart present sets payload to the restored
\* FormData and removes multipart; otherwise, with blob present (and
\* decodable), sets payload to the decoded Blob and removes blob; otherwise
\* returns the envelope unchanged; the metadata keeps its values in every case.
C6_RestoreDispatch ==
  Restored =>
    /\ SameMetadata(arg, request)
    /\ IF MultipartPresent(arg)
       THEN /\ HasKey(request, "payload")
            /\ request.payload = restoreMultipart(arg.multipart)
            /\ request.payload.t = "formdata"
            /\ Len(request.payload.entries) = Len(arg.multipart.items)
            /\ ~HasKey(request, "multipart")
            /\ HasKey(request, "blob") = HasKey(arg, "blob")
       ELSE IF BlobPresent(arg)
       THEN /\ ~HasKey(request, "blob")
            /\ _dataURLtoBlob(arg.blob) # Throw =>
                 /\ HasKey(request, "payload")
                 /\ request.payload = _dataURLtoBlob(arg.blob)
       ELSE request = arg

\* An envelope holding both a multipart list and a blob was restored: the
\* payload is the FormData of the list and the blob is still there.
C6_Witness ==
  /\ Restored
  /\ MultipartPresent(arg)
  /\ BlobPresent(arg)
  /\ Len(arg.multipart.items) = 1
  /\ request.payload.t = "formdata"
  /\ request.payload.entries[1].value = Str("test-value")
  /\ HasKey(request, "blob")
  /\ ~HasKey(request, "multipart")

\* C7: a session that starts from an envelope with at most one of payload,
\* blob and multipart populated holds, after every payloadToString and
\* restorePayload call that returned, an envelope with at most one populated.
C7_EnvelopeInvariant ==
  (AtMostOne(origin) /\ pc = "idle") => AtMostOne(request)

\* A Blob payload was encoded, restored and encoded again.
C7_Witness ==
  /\ AtMostOne(origin)
  /\ PayloadPresent(origin)
  /\ origin.payload.t = "blob"
  /\ ops = 3
  /\ op = "payloadToString"
  /\ pc = "idle"
  /\ Populated(request) = {"blob"}

\* C8: during one container encode at most one read is in flight, the
\* iterator is exactly one entry ahead of the result list while an entry is
\* pending, the read in flight is the pending entry's, and the result list
\* holds the parts of the entries before it, one per entry and in order.
C8_SequentialEncode ==
  /\ Cardinality(inflight) <= 1
  /\ pc = "entry" =>
       /\ iterator.pos = Len(result) + 1
       /\ inflight \subseteq {iterator.pos}
       /\ (iterator.entries[iterator.pos].value.t = "blob") = (inflight = {iterator.pos})
       /\ \A i \in 1..Len(result) :
            /\ result[i].name = iterator.entries[i].name
            /\ result[i] = MakePart(iterator.entries[i], textParts, result[i].value)

\* The read of the second Blob entry is in flight and the part of the first
\* Blob entry is in the result list.
C8_Witness ==
  /\ pc = "entry"
  /\ Len(iterator.entries) = 2
  /\ iterator.entries[1].value.t = "blob"
  /\ iterator.entries[2].value.t = "blob"
  /\ iterator.pos = 2
  /\ inflight = {2}
  /\ Len(result) = 1
  /\ result[1].isFile

\* C9: payloadToString on an envelope with no payload, or with a string
\* payload, resolves to an envelope equal to the input in every field.
C9_Identity ==
  (/\ op = "payloadToString"
   /\ pc = "idle"
   /\ (~PayloadPresent(arg) \/ arg.payload.t = "string")) =>
    request = arg

\* payloadToString resolved on an envelope with the string payload "test".
C9_Witness ==
  /\ op = "payloadToString"
  /\ pc = "idle"
  /\ HasKey(arg, "payload")
  /\ arg.payload = Str("test")
  /\ request = arg

\* C10 as stated: restorePayload on an envelope whose blob is not a decodable
\* data URL does not throw, removes blob and sets no payload; every other
\* field keeps its value.
C10_UndecodableBlob ==
  (/\ op = "restorePayload"
   /\ HasKey(arg, "blob")
   /\ _dataURLtoBlob(arg.blob) = Throw) =>
    /\ pc = "idle"
    /\ request = DeleteKey(arg, "blob")

\* C10, amended: restorePayload on an envelope with no multipart list whose
\* blob is a non-empty string that is not a decodable data URL does not
\* throw, removes blob and sets no payload; every other field keeps its value.
C10_BlobDecodeFailure ==
  (/\ op = "restorePayload"
   /\ ~MultipartPresent(arg)
   /\ BlobPresent(arg)
   /\ _dataURLtoBlob(arg.blob) = Throw) =>
    /\ pc = "idle"
    /\ request = DeleteKey(arg, "blob")

\* restorePayload returned on an envelope whose blob is "not-a-data-url" and
\* which holds a string payload: the blob is gone, the payload is the same.
C10_Witness ==
  /\ Restored
  /\ HasKey(arg, "blob")
  /\ arg.blob = "not-a-data-url"
  /\ HasKey(arg, "payload")
  /\ ~HasKey(request, "blob")
  /\ request.payload = Str("test")

\* A record restoreMultipart decodes: a file, or a text blob (isTextBlob).
BinaryMarked(part) == PartIsFile(part) \/ PartIsTextBlob(part)
\* A binary-marked record whose value does not decode.
FailingPart(part) == BinaryMarked(part) /\ _dataURLtoBlob(part.value) = Throw
\* The list with the record at i given a value that decodes.
WithValidAt(items, i) == [items EXCEPT ![i].value = StarsUrl]

\* A text-blob record as it is stored: not a file, with a type.
IsTextBlobRecord(part) == ~PartIsFile(part) /\ HasKey(part, "type")

\* C11 as stated: restoreMultipart appends the empty string under the name of
\* a binary-marked record (a file record, or a text-blob record, which has
\* isFile = false and a type) whose value does not decode, and goes on: the
\* FormData has one entry per record, in record order, and every other entry
\* is the one restoreMultipart builds when the failing record's value is valid.
C11_PartDecodeFailure ==
  (Restored /\ MultipartPresent(arg)) =>
    LET items == arg.multipart.items
        fd == request.payload
    IN /\ Len(fd.entries) = Len(items)
       /\ \A i \in 1..Len(items) : fd.entries[i].name = items[i].name
       /\ \A i \in 1..Len(items) :
            (/\ PartIsFile(items[i]) \/ IsTextBlobRecord(items[i])
             /\ _dataURLtoBlob(items[i].value) = Throw) =>
              /\ fd.entries[i].value = Str("")
              /\ \A j \in 1..Len(items) \ {i} :
                   fd.entries[j] =
                     restoreMultipart(Arr(WithValidAt(items, i))).entries[j]

\* C12: when a read fails while payloadToString encodes a Blob payload or a
\* Blob entry of a FormData payload, the promise of payloadToString is
\* rejected and stays so: the caller gets no envelope (none with a blob value,
\* none with a multipart list) and holds the envelope it passed.
C12_ReadFailureRejects ==
  readError =>
    /\ pc = "rejected"
    /\ op = "payloadToString"
    /\ request = arg
    /\ ~BlobPresent(request)
    /\ ~MultipartPresent(request)

\* The read of the second Blob entry failed after the part of the first was
\* pushed: the promise is rejected and the request has no multipart.
C12_Witness ==
  /\ readError
  /\ pc = "rejected"
  /\ iterator.pos = 2
  /\ iterator.entries[2].value.t = "blob"
  /\ Len(result) = 1
  /\ ~HasKey(request, "multipart")

\* The classification of a part record: a file, a text blob (a part that had
\* a content type of its own) or plain text.
Classification(part) ==
  IF PartIsFile(part) THEN "file"
  ELSE IF PartIsTextBlob(part) THEN "text-blob"
  ELSE "plain"

\* The keys of the part records _computeFormDataEntry writes.
WrittenKeys == {"name", "value", "isFile", "isTextBlob"}

\* payloadToString has resolved on the envelope restorePayload returned for
\* the initial envelope, a stored multipart list of the records this code
\* writes, each binary-marked value a valid data URL.
StoreRoundTrip ==
  /\ ops = 2
  /\ op = "payloadToString"
  /\ pc = "idle"
  /\ MultipartPresent(origin)
  /\ \A i \in 1..Len(origin.multipart.items) :
       /\ DOMAIN origin.multipart.items[i] \subseteq WrittenKeys
       /\ ~FailingPart(origin.multipart.items[i])
  /\ arg = restorePayload(origin)

\* C13: restoreMultipart followed by the encode of the restored FormData
\* yields a list of the same length whose record at each position has the
\* name, the value and the classification of the stored record at that
\* position, also when a name repeats.
C13_StoreRoundTrip ==
  StoreRoundTrip =>
    /\ HasKey(request, "multipart")
    /\ Len(request.multipart.items) = Len(origin.multipart.items)
    /\ \A i \in 1..Len(origin.multipart.items) :
         /\ request.multipart.items[i].name = origin.multipart.items[i].name
         /\ request.multipart.items[i].value = origin.multipart.items[i].value
         /\ Classification(request.multipart.items[i]) =
              Classification(origin.multipart.items[i])
====
